---- MODULE Spec2Model ----
(***************************************************************************)
(* Timer / session state machine of the Pomodoro client (PomodoroApp,      *)
(* Timer, DictationInput, supabaseService, notificationService).           *)
(*                                                                         *)
(* One action is one browser event: the event handler, the React render    *)
(* that follows it and the effects of that render (core timer effect and   *)
(* save-to-localStorage effect) run to completion.  The two asynchronous   *)
(* handlers (handleSaveDescription, handleStartWorkSession) are split at   *)
(* their awaits; a continuation runs with the values its closure captured  *)
(* when the handler was invoked.                                           *)
(*                                                                         *)
(* Representation: null is NoTime for targetEndTime, NoTask for the task   *)
(* name and the empty sequence for taskForDescription and the localStorage *)
(* entry.  Durations in minutes are held in seconds (minutes * 60) because *)
(* WORK_DURATION_MINUTES is the fraction 10 / 60.  The liveDescription     *)
(* text field is not modelled.                                             *)
(***************************************************************************)
EXTENDS Integers, Sequences, FiniteSets, TLC

\* ---------------------------------------------------------------- constants
WORK_DURATION_SECONDS == 10
SHORT_BREAK_DURATION_SECONDS == 5
LONG_BREAK_DURATION_SECONDS == 8

IDLE == "IDLE"
RUNNING == "RUNNING"
PAUSED == "PAUSED"
DESCRIBING == "DESCRIBING"
BREAK == "BREAK"
PomodoroPhase == {IDLE, RUNNING, PAUSED, DESCRIBING, BREAK}

NoTime == -1
NoTask == ""

\* ------------------------------------------------------------------- bounds
MaxNow == 12000
MaxSaveOps == 2
MaxStartOps == 1
MaxRows == 2
MaxCycle == 9
ElapseSteps == {1000}
TaskNames == {"A"}
BlankNames == {"", " ", "   "}
Descriptions == {"d"}

\* -------------------------------------------------------------------- state
VARIABLES
  currentPhase,                 \* useState: PomodoroPhase
  timeRemainingInSeconds,       \* useState: number
  pomodorosInCycle,             \* useState: number
  activeTimerPhaseBeforePause,  \* useState: PomodoroPhase
  currentTimerTaskName,         \* useState: string | null
  targetEndTime,                \* useState: number | null  (ms)
  taskForDescription,           \* useState: {name, duration} | null
  isDescriptionModalOpen,       \* useState: boolean
  isSaving,                     \* useState: boolean
  armedIntervals,               \* number of live setInterval timers of the core timer effect
  localStorage,                 \* the entry pomodoroTimerState_<user.id>
  pendingCreated,               \* history: number of PendingDescriptions created
  dbSessions,                   \* rows of the pomodoro_sessions table
  saveOps,                      \* handleSaveDescription invocations in flight
  startOps,                     \* handleStartWorkSession invocations in flight
  permission,                   \* Notification.permission
  now,                          \* Date.now()  (ms)
  visible,                      \* document.visibilityState === 'visible'
  submitRejected,               \* history: the guard returned a submit
  cancelledPending,             \* history: PendingDescriptions the user cancelled
  expiredBy,                    \* history: what caused the last work expiry
  lastSubmitOutcome,            \* history: how the last finished submit ended
  lastEvent,                    \* history: what the step just taken did
  user,                         \* id of the user PomodoroApp is mounted for
  store,                        \* localStorage entries by key, as of the mount
  chat                          \* geminiService: the chat handle and its sends

compVars == <<currentPhase, timeRemainingInSeconds, pomodorosInCycle,
              activeTimerPhaseBeforePause, currentTimerTaskName, targetEndTime,
              taskForDescription, isDescriptionModalOpen, isSaving,
              armedIntervals, localStorage, pendingCreated>>

vars == <<currentPhase, timeRemainingInSeconds, pomodorosInCycle,
          activeTimerPhaseBeforePause, currentTimerTaskName, targetEndTime,
          taskForDescription, isDescriptionModalOpen, isSaving,
          armedIntervals, localStorage, pendingCreated, dbSessions, saveOps,
          startOps, permission, now, visible, submitRejected,
          cancelledPending, expiredBy, lastSubmitOutcome, lastEvent,
          user, store, chat>>

histVars == <<submitRejected, cancelledPending, expiredBy, lastSubmitOutcome>>

\* The ids of the users who log in on this browser.
Users == {"u1", "u2"}

\* Mutant: one key for every user.
StorageKey_Shared(u) == "pomodoroTimerState"

\* `pomodoroTimerState_${user.id}`
StorageKey(u) == "pomodoroTimerState_" \o u

StorageKeys == {StorageKey(u) : u \in Users}

\* The variable localStorage holds the entry under the key of the mounted
\* user, which the component reads and writes; store holds the entries
\* under all keys as they were when the component was mounted.
ownerVars == <<user, store>>

\* localStorage.getItem(StorageKey(u)) as it would return now.
EntryOf(u) ==
  IF StorageKey(u) = StorageKey(user) THEN localStorage
                                      ELSE store[StorageKey(u)]

EmptyStore == [k \in StorageKeys |-> << >>]

\* geminiService after the module is loaded with an API key: no chat handle
\* (chatInstance === null), no send made.  Handles are numbered in the order
\* of their creation; sending is the handle a send in flight was made on,
\* thrown what the last failed send threw.
NoChat ==
  [configured |-> TRUE, chatInstance |-> 0, created |-> 0, sending |-> 0,
   sent |-> 0, outcome |-> "none", thrown |-> << >>]

\* The component state as one value, so that a handler, the render and the
\* effects compose; Commit writes it back.
Cur ==
  [currentPhase |-> currentPhase,
   timeRemainingInSeconds |-> timeRemainingInSeconds,
   pomodorosInCycle |-> pomodorosInCycle,
   activeTimerPhaseBeforePause |-> activeTimerPhaseBeforePause,
   currentTimerTaskName |-> currentTimerTaskName,
   targetEndTime |-> targetEndTime,
   taskForDescription |-> taskForDescription,
   isDescriptionModalOpen |-> isDescriptionModalOpen,
   isSaving |-> isSaving,
   armedIntervals |-> armedIntervals,
   localStorage |-> localStorage,
   pendingCreated |-> pendingCreated]

Commit(c) ==
  /\ currentPhase' = c.currentPhase
  /\ timeRemainingInSeconds' = c.timeRemainingInSeconds
  /\ pomodorosInCycle' = c.pomodorosInCycle
  /\ activeTimerPhaseBeforePause' = c.activeTimerPhaseBeforePause
  /\ currentTimerTaskName' = c.currentTimerTaskName
  /\ targetEndTime' = c.targetEndTime
  /\ taskForDescription' = c.taskForDescription
  /\ isDescriptionModalOpen' = c.isDescriptionModalOpen
  /\ isSaving' = c.isSaving
  /\ armedIntervals' = c.armedIntervals
  /\ localStorage' = c.localStorage
  /\ pendingCreated' = c.pendingCreated

\* useState initial values of PomodoroApp.
InitialState ==
  [currentPhase |-> IDLE,
   timeRemainingInSeconds |-> WORK_DURATION_SECONDS,
   pomodorosInCycle |-> 0,
   activeTimerPhaseBeforePause |-> RUNNING,
   currentTimerTaskName |-> NoTask,
   targetEndTime |-> NoTime,
   taskForDescription |-> << >>,
   isDescriptionModalOpen |-> FALSE,
   isSaving |-> FALSE,
   armedIntervals |-> 0,
   localStorage |-> << >>,
   pendingCreated |-> 0]

\* ------------------------------------------------------------ pure helpers
\* Mutant: Math.floor instead of Math.round.
MathRound_Floor(n, d) == n \div d

\* Math.round(n / d) for d > 0: nearest integer, halves towards +infinity.
MathRound(n, d) == (2 * n + d) \div (2 * d)

\* Mutant: every break from the fourth interval on is long.
BreakDuration_LongFromFourth(n) ==
  IF n >= 4 THEN LONG_BREAK_DURATION_SECONDS
            ELSE SHORT_BREAK_DURATION_SECONDS

\* (pomodorosInCycle > 0 && pomodorosInCycle % 4 === 0) ? LONG : SHORT
BreakDuration(n) ==
  IF n > 0 /\ n % 4 = 0 THEN LONG_BREAK_DURATION_SECONDS
                        ELSE SHORT_BREAK_DURATION_SECONDS

\* JavaScript truthiness of targetEndTime (null and 0 are falsy).
Truthy(t) == t # NoTime /\ t # 0

\* --------------------------------------------------------------- effects
\* Mutant: the effect returns no cleanup, so the interval of the previous run
\* stays alive.
TimerEffectCleanup_Skipped(c) == c

\* The cleanup the core timer effect returns, run before each new run of the
\* effect: clearInterval(intervalId) ends the interval that the previous run
\* created, if it created one.
TimerEffectCleanup(c) ==
  [c EXCEPT !.armedIntervals = IF @ > 0 THEN @ - 1 ELSE 0]

\* Mutant: the expiry branch forgets to test the phase before counting, so
\* the end of a break counts as a completed work interval too.
TimerEffect_CountsBreak(c) ==
  LET cleaned == TimerEffectCleanup(c) IN
  IF c.currentPhase \in {RUNNING, BREAK} /\ c.timeRemainingInSeconds > 0
  THEN [cleaned EXCEPT !.armedIntervals = @ + 1]
  ELSE IF c.timeRemainingInSeconds = 0
       THEN IF c.currentPhase = RUNNING /\ c.currentTimerTaskName # NoTask
            THEN [cleaned EXCEPT
                   !.taskForDescription =
                      <<[name |-> c.currentTimerTaskName,
                         duration |-> WORK_DURATION_SECONDS,
                         id |-> c.pendingCreated + 1]>>,
                   !.pendingCreated = c.pendingCreated + 1,
                   !.pomodorosInCycle = c.pomodorosInCycle + 1,
                   !.isDescriptionModalOpen = TRUE,
                   !.currentPhase = DESCRIBING]
            ELSE IF c.currentPhase = BREAK
                 THEN [cleaned EXCEPT
                        !.pomodorosInCycle = c.pomodorosInCycle + 1,
                        !.currentPhase = IDLE,
                        !.timeRemainingInSeconds = WORK_DURATION_SECONDS,
                        !.currentTimerTaskName = NoTask]
                 ELSE cleaned
       ELSE cleaned

\* Core timer effect: arms the 1 s interval in a live phase with time left,
\* otherwise performs the expiry transition when the time is exactly 0.
TimerEffect(c) ==
  LET cleaned == TimerEffectCleanup(c) IN
  IF c.currentPhase \in {RUNNING, BREAK} /\ c.timeRemainingInSeconds > 0
  THEN [cleaned EXCEPT !.armedIntervals = @ + 1]
  ELSE IF c.timeRemainingInSeconds = 0
       THEN IF c.currentPhase = RUNNING /\ c.currentTimerTaskName # NoTask
            THEN [cleaned EXCEPT
                   !.taskForDescription =
                      <<[name |-> c.currentTimerTaskName,
                         duration |-> WORK_DURATION_SECONDS,
                         id |-> c.pendingCreated + 1]>>,
                   !.pendingCreated = c.pendingCreated + 1,
                   !.pomodorosInCycle = c.pomodorosInCycle + 1,
                   !.isDescriptionModalOpen = TRUE,
                   !.currentPhase = DESCRIBING]
            ELSE IF c.currentPhase = BREAK
                 THEN [cleaned EXCEPT
                        !.currentPhase = IDLE,
                        !.timeRemainingInSeconds = WORK_DURATION_SECONDS,
                        !.currentTimerTaskName = NoTask]
                 ELSE cleaned
       ELSE cleaned

\* Mutant: the effect writes in Running and Paused but never removes.
SaveEffect_NeverRemoves(c) ==
  IF c.currentPhase \in {RUNNING, PAUSED}
  THEN [c EXCEPT !.localStorage =
          <<[currentPhase |-> c.currentPhase,
             timeRemainingInSeconds |-> c.timeRemainingInSeconds,
             pomodorosInCycle |-> c.pomodorosInCycle,
             currentTimerTaskName |-> c.currentTimerTaskName,
             activeTimerPhaseBeforePause |-> c.activeTimerPhaseBeforePause]>>]
  ELSE c

\* Save-to-localStorage effect.
SaveEffect(c) ==
  IF c.currentPhase \in {RUNNING, PAUSED}
  THEN [c EXCEPT !.localStorage =
          <<[currentPhase |-> c.currentPhase,
             timeRemainingInSeconds |-> c.timeRemainingInSeconds,
             pomodorosInCycle |-> c.pomodorosInCycle,
             currentTimerTaskName |-> c.currentTimerTaskName,
             activeTimerPhaseBeforePause |-> c.activeTimerPhaseBeforePause]>>]
  ELSE [c EXCEPT !.localStorage = << >>]

\* The dependencies of the core timer effect.
TimerDeps(c) ==
  <<c.currentPhase, c.timeRemainingInSeconds, c.currentTimerTaskName>>

\* Render after a state change: the effects run, and run again for the
\* render their own state changes cause, until nothing changes.
RECURSIVE Render(_)
Render(c) ==
  LET d == TimerEffect(c)
  IN IF TimerDeps(d) = TimerDeps(c) THEN SaveEffect(d) ELSE Render(d)

\* --------------------------------------------------------------- handlers
\* handleAppPhaseChange, with the currentPhase and pomodorosInCycle of the
\* render whose closure calls it.
HandleAppPhaseChange(c, closurePhase, closurePomodoros, newPhase) ==
  LET c1 == IF newPhase = PAUSED /\ closurePhase \in {RUNNING, BREAK}
            THEN [c EXCEPT !.activeTimerPhaseBeforePause = closurePhase]
            ELSE c
      c2 == [c1 EXCEPT !.currentPhase = newPhase]
  IN CASE newPhase = IDLE ->
            [c2 EXCEPT !.timeRemainingInSeconds = WORK_DURATION_SECONDS]
       [] newPhase = RUNNING ->
            IF closurePhase \in {IDLE, BREAK}
            THEN [c2 EXCEPT !.timeRemainingInSeconds = WORK_DURATION_SECONDS]
            ELSE c2
       [] newPhase = BREAK ->
            [c2 EXCEPT
               !.timeRemainingInSeconds = BreakDuration(closurePomodoros),
               !.currentTimerTaskName = NoTask]
       [] OTHER -> c2

\* The part of handleStartWorkSession after the awaited permission request.
\* op holds what the closure captured; the RUNNING case of
\* handleAppPhaseChange does not read pomodorosInCycle.
StartWorkSessionContinuation(c, op, t) ==
  HandleAppPhaseChange(
    [c EXCEPT !.timeRemainingInSeconds = WORK_DURATION_SECONDS,
              !.targetEndTime = t + WORK_DURATION_SECONDS * 1000,
              !.currentTimerTaskName = op.taskName],
    op.currentPhase, c.pomodorosInCycle, RUNNING)

HandlePauseSession(c) ==
  HandleAppPhaseChange([c EXCEPT !.targetEndTime = NoTime],
                       c.currentPhase, c.pomodorosInCycle, PAUSED)

HandleResumeSession(c, t) ==
  HandleAppPhaseChange(
    [c EXCEPT !.targetEndTime = t + c.timeRemainingInSeconds * 1000],
    c.currentPhase, c.pomodorosInCycle, c.activeTimerPhaseBeforePause)

\* Mutant: stop forgets to clear the task name.
HandleStopSession_KeepsTaskName(c) ==
  LET c1 == HandleAppPhaseChange([c EXCEPT !.targetEndTime = NoTime],
                                 c.currentPhase, c.pomodorosInCycle, IDLE)
  IN [c1 EXCEPT !.localStorage = << >>]

\* Mutant: stop forgets to clear the target time.
HandleStopSession_KeepsTarget(c) ==
  LET c1 == HandleAppPhaseChange(c, c.currentPhase, c.pomodorosInCycle, IDLE)
  IN [c1 EXCEPT !.currentTimerTaskName = NoTask, !.localStorage = << >>]

\* handleStopSession.
HandleStopSession(c) ==
  LET c1 == HandleAppPhaseChange([c EXCEPT !.targetEndTime = NoTime],
                                 c.currentPhase, c.pomodorosInCycle, IDLE)
  IN [c1 EXCEPT !.currentTimerTaskName = NoTask, !.localStorage = << >>]

HandleStartBreakSession(c, t) ==
  HandleAppPhaseChange(
    [c EXCEPT
       !.timeRemainingInSeconds = BreakDuration(c.pomodorosInCycle),
       !.targetEndTime = t + BreakDuration(c.pomodorosInCycle) * 1000],
    c.currentPhase, c.pomodorosInCycle, BREAK)

\* Mutant: closing the modal keeps the PendingDescription.
DescriptionModalOnClose_KeepsPending(c) ==
  HandleAppPhaseChange(
    [c EXCEPT !.isDescriptionModalOpen = FALSE,
              !.currentTimerTaskName = NoTask],
    c.currentPhase, c.pomodorosInCycle, BREAK)

\* onClose of the description modal.
DescriptionModalOnClose(c) ==
  HandleAppPhaseChange(
    [c EXCEPT !.isDescriptionModalOpen = FALSE,
              !.taskForDescription = << >>,
              !.currentTimerTaskName = NoTask],
    c.currentPhase, c.pomodorosInCycle, BREAK)

\* Mutant: the handler writes the rounded difference without the <= 0 case.
HandleVisibilityChange_NoClamp(c, isVisible, t) ==
  IF isVisible /\ Truthy(c.targetEndTime)
  THEN [c EXCEPT !.timeRemainingInSeconds =
                    MathRound(c.targetEndTime - t, 1000)]
  ELSE c

\* handleVisibilityChange.
HandleVisibilityChange(c, isVisible, t) ==
  IF isVisible /\ Truthy(c.targetEndTime)
  THEN LET newRemainingSeconds == MathRound(c.targetEndTime - t, 1000)
       IN IF newRemainingSeconds <= 0
          THEN [c EXCEPT !.timeRemainingInSeconds = 0]
          ELSE [c EXCEPT !.timeRemainingInSeconds = newRemainingSeconds]
  ELSE c

\* Mutant: the guard forgets the in-flight flag.
SaveDescriptionProceeds_NoFlag(c) ==
  c.taskForDescription # << >>

\* The guard of handleSaveDescription: if (!taskForDescription || isSaving) return
SaveDescriptionProceeds(c) ==
  c.taskForDescription # << >> /\ ~c.isSaving

\* The success tail of handleSaveDescription, after both awaits.
SaveDescriptionSuccess(c, op) ==
  HandleAppPhaseChange(
    [c EXCEPT !.isDescriptionModalOpen = FALSE,
              !.taskForDescription = << >>,
              !.currentTimerTaskName = NoTask],
    op.currentPhase, op.pomodorosInCycle, BREAK)

\* Mutant: the failure path also discards the PendingDescription.
SaveDescriptionFinally_DropsPending(c) ==
  [c EXCEPT !.isSaving = FALSE, !.taskForDescription = << >>]

\* finally { setIsSaving(false) }
SaveDescriptionFinally(c) == [c EXCEPT !.isSaving = FALSE]

\* Mutant: the duration is passed on without Math.round, in seconds.
SessionPayload_DurationUnrounded(op) ==
  [taskName |-> op.taskForDescription.name,
   durationMinutes |-> op.taskForDescription.duration,
   taskDescription |-> op.description,
   of |-> op.taskForDescription.id]

\* The row handed to savePomodoroSession; durationMinutes is
\* Math.round(taskForDescription.duration).  The of field is not a column:
\* it records which PendingDescription the row was written for.
SessionPayload(op) ==
  [taskName |-> op.taskForDescription.name,
   durationMinutes |-> MathRound(op.taskForDescription.duration, 60),
   taskDescription |-> op.description,
   of |-> op.taskForDescription.id]

\* A stored text that is not JSON.
Unparseable == [text |-> "{currentPhase:"]

\* JSON.parse returns for the stored item (it throws for text that is not
\* JSON, and the effect's try/catch swallows the exception).
JsonParses(item) == "currentPhase" \in DOMAIN item

\* What the mount finds in localStorage.
LoadOutcome(stored) ==
  IF stored = << >> THEN "loadAbsent"
  ELSE IF ~JsonParses(stored[1]) THEN "loadUnparseable"
  ELSE IF stored[1].currentPhase \in {IDLE, BREAK, DESCRIBING}
       THEN "loadIgnored"
  ELSE "loadRestored"

\* Mutant: the effect does not restore the phase before the pause.
RestoreEffect_DropsPhaseBeforePause(c) ==
  IF /\ c.localStorage # << >>
     /\ JsonParses(c.localStorage[1])
     /\ c.localStorage[1].currentPhase \in {RUNNING, PAUSED}
  THEN LET savedState == c.localStorage[1]
       IN [c EXCEPT
            !.currentPhase = savedState.currentPhase,
            !.timeRemainingInSeconds = savedState.timeRemainingInSeconds,
            !.pomodorosInCycle = savedState.pomodorosInCycle,
            !.currentTimerTaskName = savedState.currentTimerTaskName]
  ELSE c

\* Mutant: the effect restores a parsed snapshot whatever its phase.
RestoreEffect_AnyPhase(c) ==
  IF c.localStorage # << >> /\ JsonParses(c.localStorage[1])
  THEN LET savedState == c.localStorage[1]
       IN [c EXCEPT
            !.currentPhase = savedState.currentPhase,
            !.timeRemainingInSeconds = savedState.timeRemainingInSeconds,
            !.pomodorosInCycle = savedState.pomodorosInCycle,
            !.currentTimerTaskName = savedState.currentTimerTaskName,
            !.activeTimerPhaseBeforePause = savedState.activeTimerPhaseBeforePause]
  ELSE c

\* Restore-from-localStorage effect of the mount: only a RUNNING or PAUSED
\* snapshot is honoured; targetEndTime is not part of the snapshot.
RestoreEffect(c) ==
  IF /\ c.localStorage # << >>
     /\ JsonParses(c.localStorage[1])
     /\ c.localStorage[1].currentPhase \in {RUNNING, PAUSED}
  THEN LET savedState == c.localStorage[1]
       IN [c EXCEPT
            !.currentPhase = savedState.currentPhase,
            !.timeRemainingInSeconds = savedState.timeRemainingInSeconds,
            !.pomodorosInCycle = savedState.pomodorosInCycle,
            !.currentTimerTaskName = savedState.currentTimerTaskName,
            !.activeTimerPhaseBeforePause = savedState.activeTimerPhaseBeforePause]
  ELSE c

\* A fresh mount of PomodoroApp over the stored entry.
Mount(stored, created) ==
  Render(RestoreEffect([InitialState EXCEPT !.localStorage = stored,
                                            !.pendingCreated = created]))

RemoveAt(s, i) == SubSeq(s, 1, i - 1) \o SubSeq(s, i + 1, Len(s))

\* ------------------------------------------------------------------ Init
\* What an earlier page session may have left in localStorage: nothing, or
\* the snapshot of a work interval that was running when the page went away.
StoredBeforeMount ==
  {<< >>,
   <<[currentPhase |-> RUNNING,
      timeRemainingInSeconds |-> 2,
      pomodorosInCycle |-> 3,
      currentTimerTaskName |-> "A",
      activeTimerPhaseBeforePause |-> RUNNING]>>}

Init ==
  \E stored \in StoredBeforeMount :
  LET c == Mount(stored, 0)
  IN /\ currentPhase = c.currentPhase
     /\ timeRemainingInSeconds = c.timeRemainingInSeconds
     /\ pomodorosInCycle = c.pomodorosInCycle
     /\ activeTimerPhaseBeforePause = c.activeTimerPhaseBeforePause
     /\ currentTimerTaskName = c.currentTimerTaskName
     /\ targetEndTime = c.targetEndTime
     /\ taskForDescription = c.taskForDescription
     /\ isDescriptionModalOpen = c.isDescriptionModalOpen
     /\ isSaving = c.isSaving
     /\ armedIntervals = c.armedIntervals
     /\ localStorage = c.localStorage
     /\ pendingCreated = c.pendingCreated
     /\ dbSessions = << >>
     /\ saveOps = << >>
     /\ startOps = << >>
     /\ permission = "default"
     /\ now = 0
     /\ visible = TRUE
     /\ submitRejected = FALSE
     /\ cancelledPending = {}
     /\ expiredBy = "none"
     /\ lastSubmitOutcome = "none"
     /\ lastEvent = LoadOutcome(stored)
     /\ user = "u1"
     /\ store = EmptyStore
     /\ chat = NoChat

\* --------------------------------------------------------------- actions
\* submitRejected, expiredBy and lastSubmitOutcome record what happened since
\* the last work interval was started.
NewIntervalHistory ==
  /\ submitRejected' = FALSE
  /\ expiredBy' = "none"
  /\ lastSubmitOutcome' = "none"

\* String.prototype.trim on the task-name inputs: a string of spaces trims
\* to the empty string, a name without surrounding spaces to itself.
Trim(text) ==
  CASE text = " " -> ""
    [] text = "   " -> ""
    [] OTHER -> text

\* Mutant: the test compares the untrimmed text.
HandleStartProceeds_NoTrim(localTaskName) == localTaskName # ""

\* The guard of Timer.handleStart: if (localTaskName.trim() === '') return
HandleStartProceeds(localTaskName) == Trim(localTaskName) # ""

\* Timer.handleStart with a blank task name: alert and return.
StartRejected(name) ==
  /\ visible
  /\ currentPhase = IDLE
  /\ ~HandleStartProceeds(name)
  /\ UNCHANGED <<compVars, dbSessions, saveOps, startOps, permission, now,
                 visible, histVars>>
  /\ UNCHANGED <<ownerVars, chat>>
  /\ lastEvent' = "startRejected"

\* Timer.handleStart -> handleStartWorkSession while the permission is still
\* undecided: the handler waits for the user's answer to the prompt.
StartWorkSessionAwait(name) ==
  /\ visible
  /\ currentPhase = IDLE
  /\ HandleStartProceeds(name)
  /\ permission = "default"
  /\ Len(startOps) < MaxStartOps
  /\ startOps' = Append(startOps, [taskName |-> name,
                                   currentPhase |-> currentPhase])
  /\ UNCHANGED <<compVars, dbSessions, saveOps, permission, now,
                 visible, histVars>>
  /\ UNCHANGED <<ownerVars, chat>>
  /\ lastEvent' = "none"

\* The awaited Notification.requestPermission() settles with the answer.
PermissionSettles(i, answer) ==
  /\ i \in 1..Len(startOps)
  /\ answer \in (IF permission = "default"
                 THEN {"default", "granted", "denied"} ELSE {permission})
  /\ permission' = answer
  /\ startOps' = RemoveAt(startOps, i)
  /\ Commit(Render(StartWorkSessionContinuation(Cur, startOps[i], now)))
  /\ NewIntervalHistory
  /\ UNCHANGED <<dbSessions, saveOps, now, visible, cancelledPending>>
  /\ UNCHANGED <<ownerVars, chat>>
  /\ lastEvent' = IF currentPhase = IDLE THEN "none" ELSE "startedLate"

\* The awaited Notification.requestPermission() rejects: the await throws,
\* handleStartWorkSession has no catch and ends there.
PermissionRequestRejects(i) ==
  /\ i \in 1..Len(startOps)
  /\ startOps' = RemoveAt(startOps, i)
  /\ UNCHANGED <<compVars, dbSessions, saveOps, permission, now, visible,
                 histVars>>
  /\ UNCHANGED <<ownerVars, chat>>
  /\ lastEvent' = "none"

\* handleStartWorkSession when the permission is already granted or denied:
\* requestPermission() resolves at once.
StartWorkSession(name) ==
  /\ visible
  /\ currentPhase = IDLE
  /\ HandleStartProceeds(name)
  /\ permission # "default"
  /\ Commit(Render(StartWorkSessionContinuation(
        Cur, [taskName |-> name, currentPhase |-> currentPhase], now)))
  /\ NewIntervalHistory
  /\ UNCHANGED <<dbSessions, saveOps, startOps, permission, now,
                 visible, cancelledPending>>
  /\ UNCHANGED <<ownerVars, chat>>
  /\ lastEvent' = "none"

PauseSession ==
  /\ visible
  /\ currentPhase \in {RUNNING, BREAK}
  /\ Commit(Render(HandlePauseSession(Cur)))
  /\ UNCHANGED <<dbSessions, saveOps, startOps, permission, now,
                 visible, histVars>>
  /\ UNCHANGED <<ownerVars, chat>>
  /\ lastEvent' = "none"

ResumeSession ==
  /\ visible
  /\ currentPhase = PAUSED
  /\ Commit(Render(HandleResumeSession(Cur, now)))
  /\ UNCHANGED <<dbSessions, saveOps, startOps, permission, now,
                 visible, histVars>>
  /\ UNCHANGED <<ownerVars, chat>>
  /\ lastEvent' = "none"

StopSession ==
  /\ visible
  /\ currentPhase \in {RUNNING, BREAK, PAUSED}
  /\ Commit(Render(HandleStopSession(Cur)))
  /\ UNCHANGED <<dbSessions, saveOps, startOps, permission, now,
                 visible, histVars>>
  /\ UNCHANGED <<ownerVars, chat>>
  /\ lastEvent' = "stopped"

StartBreakSession ==
  /\ visible
  /\ currentPhase = IDLE
  /\ pomodorosInCycle > 0
  /\ Commit(Render(HandleStartBreakSession(Cur, now)))
  /\ UNCHANGED <<dbSessions, saveOps, startOps, permission, now,
                 visible, histVars>>
  /\ UNCHANGED <<ownerVars, chat>>
  /\ lastEvent' = "none"

\* Closing the description modal (close button, backdrop or Escape).
CloseDescriptionModal ==
  /\ visible
  /\ isDescriptionModalOpen
  /\ Commit(Render(DescriptionModalOnClose(Cur)))
  /\ cancelledPending' = cancelledPending \cup
        {taskForDescription[i].id : i \in 1..Len(taskForDescription)}
  /\ UNCHANGED <<dbSessions, saveOps, startOps, permission, now,
                 visible, submitRejected, expiredBy, lastSubmitOutcome>>
  /\ UNCHANGED <<ownerVars, chat>>
  /\ lastEvent' = IF currentPhase = DESCRIBING THEN "closedDescribing"
                                                  ELSE "none"

\* DictationInput.handleSave -> handleSaveDescription, up to its first await.
SaveDescription(description) ==
  /\ visible
  /\ isDescriptionModalOpen
  /\ taskForDescription # << >>
  /\ IF SaveDescriptionProceeds(Cur)
     THEN /\ Len(saveOps) < MaxSaveOps
          /\ Len(dbSessions) + Len(saveOps) < MaxRows
          /\ saveOps' = Append(saveOps,
                [pc |-> "write",
                 taskForDescription |-> taskForDescription[1],
                 description |-> description,
                 currentPhase |-> currentPhase,
                 pomodorosInCycle |-> pomodorosInCycle])
          /\ Commit(Render([Cur EXCEPT !.isSaving = TRUE]))
          /\ UNCHANGED submitRejected
     ELSE /\ submitRejected' = TRUE
          /\ UNCHANGED <<compVars, saveOps>>
  /\ UNCHANGED <<dbSessions, startOps, permission, now, visible,
                 cancelledPending, expiredBy, lastSubmitOutcome>>
  /\ UNCHANGED <<ownerVars, chat>>
  /\ lastEvent' = "none"

\* The awaited savePomodoroSession settles.
WriteSettles(i, ok) ==
  /\ i \in 1..Len(saveOps)
  /\ saveOps[i].pc = "write"
  /\ IF ok
     THEN /\ dbSessions' = Append(dbSessions, SessionPayload(saveOps[i]))
          /\ saveOps' = [saveOps EXCEPT ![i].pc = "refresh"]
          /\ UNCHANGED <<compVars, lastSubmitOutcome>>
     ELSE /\ saveOps' = RemoveAt(saveOps, i)
          /\ Commit(Render(SaveDescriptionFinally(Cur)))
          /\ lastSubmitOutcome' = "writeFailed"
          /\ UNCHANGED dbSessions
  /\ UNCHANGED <<startOps, permission, now, visible, submitRejected,
                 cancelledPending, expiredBy>>
  /\ UNCHANGED <<ownerVars, chat>>
  /\ lastEvent' = "none"

\* The awaited fetchHistory settles; the rest of handleSaveDescription runs.
RefreshSettles(i, ok) ==
  /\ i \in 1..Len(saveOps)
  /\ saveOps[i].pc = "refresh"
  /\ saveOps' = RemoveAt(saveOps, i)
  /\ IF ok
     THEN Commit(Render(SaveDescriptionFinally(
                          SaveDescriptionSuccess(Cur, saveOps[i]))))
     ELSE Commit(Render(SaveDescriptionFinally(Cur)))
  /\ lastSubmitOutcome' = IF ok THEN "saved" ELSE "refreshFailed"
  /\ UNCHANGED <<dbSessions, startOps, permission, now, visible,
                 submitRejected, cancelledPending, expiredBy>>
  /\ UNCHANGED <<ownerVars, chat>>
  /\ lastEvent' = "none"

\* One second of foreground time: the callback of every live interval runs
\* once, each doing setTimeRemainingInSeconds(prev => prev - 1).
Tick ==
  /\ visible
  /\ armedIntervals > 0
  /\ now + 1000 <= MaxNow
  /\ now' = now + 1000
  /\ Commit(Render([Cur EXCEPT !.timeRemainingInSeconds = @ - armedIntervals]))
  /\ expiredBy' = IF pendingCreated' # pendingCreated THEN "tick" ELSE expiredBy
  /\ UNCHANGED <<dbSessions, saveOps, startOps, permission, visible,
                 submitRejected, cancelledPending, lastSubmitOutcome>>
  /\ UNCHANGED <<ownerVars, chat>>
  /\ lastEvent' = "none"

\* Time passing without a tick: the page is hidden (timers suspended) or no
\* interval is armed.
Elapse(d) ==
  /\ ~visible \/ armedIntervals = 0
  /\ now + d <= MaxNow
  /\ now' = now + d
  /\ UNCHANGED <<compVars, dbSessions, saveOps, startOps, permission,
                 visible, histVars>>
  /\ UNCHANGED <<ownerVars, chat>>
  /\ lastEvent' = "none"

\* visibilitychange to hidden: the handler does nothing.
Hide ==
  /\ visible
  /\ visible' = FALSE
  /\ Commit(Render(HandleVisibilityChange(Cur, FALSE, now)))
  /\ UNCHANGED <<dbSessions, saveOps, startOps, permission, now,
                 histVars>>
  /\ UNCHANGED <<ownerVars, chat>>
  /\ lastEvent' = "none"

\* visibilitychange to visible: the handler reconciles against the clock.
Show ==
  /\ ~visible
  /\ visible' = TRUE
  /\ Commit(Render(HandleVisibilityChange(Cur, TRUE, now)))
  /\ expiredBy' = IF pendingCreated' # pendingCreated THEN "reconcile"
                                                      ELSE expiredBy
  /\ UNCHANGED <<dbSessions, saveOps, startOps, permission, now,
                 submitRejected, cancelledPending, lastSubmitOutcome>>
  /\ UNCHANGED <<ownerVars, chat>>
  /\ lastEvent' = "none"

\* The callback of the interval: setTimeRemainingInSeconds(prev => prev - 1),
\* an updater applied to whatever value the pending updates have produced.
IntervalCallback(c) ==
  [c EXCEPT !.timeRemainingInSeconds = @ - c.armedIntervals]

\* The next firing of the interval is due: a second or more has passed since
\* the tick that left timeRemainingInSeconds showing, for a countdown that
\* reaches 0 at targetEndTime.
IntervalTickIsDue ==
  /\ currentPhase \in {RUNNING, BREAK}
  /\ armedIntervals > 0
  /\ Truthy(targetEndTime)
  /\ now >= targetEndTime - (timeRemainingInSeconds - 1) * 1000

\* visibilitychange to visible with a firing of the interval due: the
\* handler's update is queued (it is not a discrete event, so React renders
\* it in a later task), the timer task runs the interval callback, and the
\* render then applies both updates; only its effects clear the interval.
ShowThenDueTick ==
  /\ ~visible
  /\ IntervalTickIsDue
  /\ visible' = TRUE
  /\ Commit(Render(IntervalCallback(HandleVisibilityChange(Cur, TRUE, now))))
  /\ expiredBy' = IF pendingCreated' # pendingCreated THEN "reconcileAndTick"
                                                      ELSE expiredBy
  /\ UNCHANGED <<dbSessions, saveOps, startOps, permission, now,
                 submitRejected, cancelledPending, lastSubmitOutcome>>
  /\ UNCHANGED <<ownerVars, chat>>
  /\ lastEvent' = "none"

\* Page reload: the handlers in flight die with the page and the component is
\* mounted afresh over the stored entry.
Reload ==
  /\ Commit(Mount(localStorage, pendingCreated))
  /\ saveOps' = << >>
  /\ startOps' = << >>
  /\ visible' = TRUE
  /\ UNCHANGED <<dbSessions, permission, now, histVars>>
  /\ UNCHANGED <<ownerVars, chat>>
  /\ lastEvent' = LoadOutcome(localStorage)

Next ==
  \/ \E name \in BlankNames : StartRejected(name)
  \/ \E name \in TaskNames \cup BlankNames : StartWorkSessionAwait(name)
  \/ \E i \in 1..MaxStartOps, answer \in {"default", "granted", "denied"} :
       PermissionSettles(i, answer)
  \/ \E i \in 1..MaxStartOps : PermissionRequestRejects(i)
  \/ \E name \in TaskNames \cup BlankNames : StartWorkSession(name)
  \/ PauseSession
  \/ ResumeSession
  \/ StopSession
  \/ StartBreakSession
  \/ CloseDescriptionModal
  \/ \E description \in Descriptions : SaveDescription(description)
  \/ \E i \in 1..MaxSaveOps, ok \in BOOLEAN : WriteSettles(i, ok)
  \/ \E i \in 1..MaxSaveOps, ok \in BOOLEAN : RefreshSettles(i, ok)
  \/ Tick
  \/ \E d \in ElapseSteps : Elapse(d)
  \/ Hide
  \/ Show
  \/ Reload

Spec == Init /\ [][Next]_vars

TypeOK ==
  /\ currentPhase \in PomodoroPhase
  /\ timeRemainingInSeconds \in 0..WORK_DURATION_SECONDS
  /\ isSaving \in BOOLEAN

\* ----------------------------------------------------------------- claims
\* Number of rows of db written for PendingDescription k.
RowsFor(db, k) == Cardinality({i \in 1..Len(db) : db[i].of = k})

\* The PendingDescription ids currently held in taskForDescription.
PendingIds == {taskForDescription[i].id : i \in 1..Len(taskForDescription)}

\* C1: for each PendingDescription, over any sequence of submit attempts,
\* write outcomes and history-refresh outcomes, at most one PomodoroSession
\* row is created, and exactly one exists when the machine leaves Describing
\* for Break via submit.
C1_AtMostOneSessionPerPending ==
  /\ [](\A k \in 1..pendingCreated : RowsFor(dbSessions, k) <= 1)
  /\ [][\A i \in 1..Len(saveOps) :
          (RefreshSettles(i, TRUE) /\ currentPhase = DESCRIBING
             /\ currentPhase' = BREAK)
          => RowsFor(dbSessions', saveOps[i].taskForDescription.id) = 1]_vars

\* What C2 promises of a second submit made while the flag is set, and the
\* flag being set exactly while a submit is in flight.
SecondSubmitIsReturned ==
  /\ [](isSaving <=> saveOps # << >>)
  /\ [][(isSaving /\ \E d \in Descriptions : SaveDescription(d))
          => UNCHANGED <<compVars, dbSessions, saveOps, startOps, now>>]_vars

\* C2 as stated: while the write started by submit is awaited (isSaving
\* set), a second submit invocation performs no storage write and changes no
\* timer state; the flag is cleared when the write settles, whether it
\* succeeded or failed.
C2_InFlightGuard_AsStated ==
  /\ SecondSubmitIsReturned
  /\ [][(\E i \in 1..Len(saveOps), ok \in BOOLEAN : WriteSettles(i, ok))
          => ~isSaving']_vars

\* C2 amended: the same guard; the flag is cleared when the submit handler
\* ends, which is when a failed write settles, and when the history refresh
\* that follows a successful write settles (with either outcome); until
\* then it stays set.
C2_InFlightGuard ==
  /\ SecondSubmitIsReturned
  /\ [][(\E i \in 1..Len(saveOps) : WriteSettles(i, TRUE))
          => (isSaving' /\ saveOps' # << >>)]_vars
  /\ [][((\E i \in 1..Len(saveOps) : WriteSettles(i, FALSE))
           \/ (\E i \in 1..Len(saveOps), ok \in BOOLEAN : RefreshSettles(i, ok)))
          => ~isSaving']_vars

\* C2 witness: a second submit was returned by the guard while the first
\* write is still awaited.
C2_Witness ==
  /\ submitRejected
  /\ isSaving
  /\ \E i \in 1..Len(saveOps) : saveOps[i].pc = "write"
  /\ dbSessions = << >>

\* What C3 promises after a failed write of the submit saveOps[i].
FailedWriteLeavesDescribing(i) ==
  /\ currentPhase' = DESCRIBING
  /\ taskForDescription' = <<saveOps[i].taskForDescription>>
  /\ dbSessions' = dbSessions
  /\ saveOps' = << >>
  /\ ~isSaving'

C4_CompletedIntervalNeverLost ==
  \A k \in 1..pendingCreated :
    \/ k \in cancelledPending
    \/ RowsFor(dbSessions, k) = 1
    \/ (k \in PendingIds /\ RowsFor(dbSessions, k) = 0)

\* C5: each expiry of a Running work interval creates exactly one
\* PendingDescription and increments pomodorosInCycle by exactly 1; the last
\* tick of the interval is such an expiry, and no tick or visibility event
\* that is not the expiry changes the counter or the PendingDescription.
C5_ExpiryCountsOnce ==
  [][LET expiry == currentPhase = RUNNING /\ currentPhase' = DESCRIBING
     IN /\ expiry =>
             /\ pendingCreated' = pendingCreated + 1
             /\ pomodorosInCycle' = pomodorosInCycle + 1
             /\ taskForDescription' =
                  <<[name |-> currentTimerTaskName,
                     duration |-> WORK_DURATION_SECONDS,
                     id |-> pendingCreated']>>
        /\ (Tick /\ currentPhase = RUNNING /\ timeRemainingInSeconds = 1)
             => expiry
        /\ ((Tick \/ Show \/ Hide) /\ ~expiry)
             => UNCHANGED <<pendingCreated, pomodorosInCycle,
                            taskForDescription>>
        /\ pendingCreated' # pendingCreated => expiry]_vars

\* C5 witness: a work interval has expired by its last tick and the machine
\* is Describing with the one PendingDescription created for it.
C5_Witness ==
  /\ expiredBy = "tick"
  /\ currentPhase = DESCRIBING
  /\ pendingCreated = 1
  /\ PendingIds = {1}
  /\ pomodorosInCycle \in {1, 4}

\* C6: targetEndTime is defined if and only if the phase is Running or
\* Break.
C6_TargetDefinedIffLive ==
  (targetEndTime # NoTime) <=> (currentPhase \in {RUNNING, BREAK})

\* The events a user causes: clicks, the answer to the permission prompt
\* and a reload of the page.
UserAction ==
  \/ \E name \in TaskNames : StartWorkSessionAwait(name)
  \/ \E name \in TaskNames : StartWorkSession(name)
  \/ \E i \in 1..Len(startOps), answer \in {"default", "granted", "denied"} :
       PermissionSettles(i, answer)
  \/ \E i \in 1..Len(startOps) : PermissionRequestRejects(i)
  \/ PauseSession
  \/ ResumeSession
  \/ StopSession
  \/ StartBreakSession
  \/ CloseDescriptionModal
  \/ \E description \in Descriptions : SaveDescription(description)
  \/ Reload

\* C7: pause() from a live phase P with r seconds left, followed after any
\* delay with no other user action by resume(), yields phase P with r
\* seconds left; while Paused the remaining seconds stay r.
C7_PauseResumeKeepsRemaining ==
  [][/\ PauseSession =>
          /\ currentPhase' = PAUSED
          /\ activeTimerPhaseBeforePause' = currentPhase
          /\ timeRemainingInSeconds' = timeRemainingInSeconds
     /\ (currentPhase = PAUSED /\ ~UserAction) =>
          /\ currentPhase' = PAUSED
          /\ UNCHANGED <<activeTimerPhaseBeforePause, timeRemainingInSeconds>>
     /\ ResumeSession =>
          /\ currentPhase' = activeTimerPhaseBeforePause
          /\ timeRemainingInSeconds' = timeRemainingInSeconds]_vars

ReconcileInit ==
  \E phase \in {RUNNING, BREAK}, started \in {0, 250, 500, 750},
     ticked \in {0, 1, 3}, clock \in {250 * k : k \in 0..56} :
    LET length == IF phase = RUNNING THEN WORK_DURATION_SECONDS
                                     ELSE SHORT_BREAK_DURATION_SECONDS
        c == Render([InitialState EXCEPT
               !.currentPhase = phase,
               !.timeRemainingInSeconds = length - ticked,
               !.pomodorosInCycle = IF phase = RUNNING THEN 0 ELSE 1,
               !.currentTimerTaskName = IF phase = RUNNING THEN "A" ELSE NoTask,
               !.targetEndTime = started + length * 1000])
    IN /\ clock >= started + ticked * 1000
       /\ currentPhase = c.currentPhase
       /\ timeRemainingInSeconds = c.timeRemainingInSeconds
       /\ pomodorosInCycle = c.pomodorosInCycle
       /\ activeTimerPhaseBeforePause = c.activeTimerPhaseBeforePause
       /\ currentTimerTaskName = c.currentTimerTaskName
       /\ targetEndTime = c.targetEndTime
       /\ taskForDescription = c.taskForDescription
       /\ isDescriptionModalOpen = c.isDescriptionModalOpen
       /\ isSaving = c.isSaving
       /\ armedIntervals = c.armedIntervals
       /\ localStorage = c.localStorage
       /\ pendingCreated = c.pendingCreated
       /\ dbSessions = << >>
       /\ saveOps = << >>
       /\ startOps = << >>
       /\ permission = "granted"
       /\ now = clock
       /\ visible = FALSE
       /\ submitRejected = FALSE
       /\ cancelledPending = {}
       /\ expiredBy = "none"
       /\ lastSubmitOutcome = "none"
       /\ lastEvent = "none"
       /\ user = "u1"
       /\ store = EmptyStore
       /\ chat = NoChat

ReconcileNext ==
  \/ Show
  \/ Hide

ReconcileSpec == ReconcileInit /\ [][ReconcileNext]_vars

\* ------------------------- reconciliation racing with the interval
\* The same hidden countdowns, whose targetEndTime is their deadline; the
\* page becomes visible with or without a firing of the interval due, and
\* the countdown goes on.
RaceNext ==
  \/ Show
  \/ ShowThenDueTick
  \/ Hide
  \/ Tick

RaceSpec == ReconcileInit /\ [][RaceNext]_vars

\* The integer nearest to num / den, a half going up.
NearestInteger(num, den) ==
  CHOOSE k \in -20..20 :
    (2 * k - 1) * den <= 2 * num /\ 2 * num < (2 * k + 1) * den

\* max(0, round((targetEndTimestamp - now) / 1000))
ReconcileContract(target, clock) ==
  LET r == NearestInteger(target - clock, 1000)
  IN IF r > 0 THEN r ELSE 0

\* C9: for every targetEndTime and now, the remaining seconds written by the
\* visibility reconciliation equal max(0, round((targetEndTime - now) / 1000));
\* they are what the timer shows afterwards, except that a Break reconciled
\* to 0 ends at once and the timer is reset for the next work interval.
C9_ReconcileWritesContract ==
  [][(Show /\ Truthy(targetEndTime)) =>
       LET r == ReconcileContract(targetEndTime, now)
       IN /\ HandleVisibilityChange(Cur, TRUE, now).timeRemainingInSeconds = r
          /\ timeRemainingInSeconds' =
               IF r = 0 /\ currentPhase = BREAK THEN WORK_DURATION_SECONDS
                                                ELSE r]_vars

\* C9 witness: a Running timer was reconciled half a second off a whole
\* number of seconds and shows the value rounded up.
C9_Witness ==
  /\ visible
  /\ currentPhase = RUNNING
  /\ (targetEndTime - now) % 1000 = 500
  /\ timeRemainingInSeconds * 1000 = targetEndTime - now + 500
  /\ timeRemainingInSeconds \in 4..6

\* C10: reconciliation is monotonic (for a fixed targetEndTime a later now
\* never yields more remaining seconds), never negative, and idempotent:
\* applying it a second time with the same targetEndTime and now leaves the
\* timer state as the first application left it.
C10_ReconcileMonotonicIdempotent ==
  /\ [](Truthy(targetEndTime) =>
          \A k \in 0..8 :
            LET first == HandleVisibilityChange(Cur, TRUE, now)
                later == HandleVisibilityChange(Cur, TRUE, now + 500 * k)
            IN /\ later.timeRemainingInSeconds <= first.timeRemainingInSeconds
               /\ later.timeRemainingInSeconds >= 0)
  /\ [][Show => Render(HandleVisibilityChange(Cur', TRUE, now')) = Cur']_vars

\* The fields of the timer state that C11 names.
TimerFrame(c) ==
  <<c.currentPhase, c.timeRemainingInSeconds, c.currentTimerTaskName,
    c.activeTimerPhaseBeforePause, c.targetEndTime, c.pomodorosInCycle>>

\* C11: for every (phase, event) pair that is not a row of the transition
\* table, invoking the event handler leaves phase, remaining seconds, task
\* name, phase before pause, targetEndTime and the counter unchanged:
\* pause() outside Running/Break, resume() outside Paused, start-break while
\* Running.
C11_OffTableEventsAreNoOps ==
  /\ currentPhase \in {IDLE, PAUSED, DESCRIBING} =>
       TimerFrame(Render(HandlePauseSession(Cur))) = TimerFrame(Cur)
  /\ currentPhase \in {IDLE, RUNNING, BREAK, DESCRIBING} =>
       TimerFrame(Render(HandleResumeSession(Cur, now))) = TimerFrame(Cur)
  /\ currentPhase = RUNNING =>
       TimerFrame(Render(HandleStartBreakSession(Cur, now))) = TimerFrame(Cur)

\* ------------------------------------------------- entering a break
\* The machine with any counter value, about to enter a break: Idle after a
\* stopped interval, or Describing an interval that has just expired.
BreakInit ==
  \E n \in 0..MaxCycle, phase \in {IDLE, DESCRIBING} :
    LET c == IF phase = IDLE
             THEN Render([InitialState EXCEPT !.pomodorosInCycle = n])
             ELSE Render([InitialState EXCEPT
                    !.currentPhase = DESCRIBING,
                    !.timeRemainingInSeconds = 0,
                    !.pomodorosInCycle = n,
                    !.currentTimerTaskName = "A",
                    !.taskForDescription =
                       <<[name |-> "A", duration |-> WORK_DURATION_SECONDS,
                          id |-> 1]>>,
                    !.pendingCreated = 1,
                    !.isDescriptionModalOpen = TRUE])
    IN /\ phase = DESCRIBING => n > 0
       /\ currentPhase = c.currentPhase
       /\ timeRemainingInSeconds = c.timeRemainingInSeconds
       /\ pomodorosInCycle = c.pomodorosInCycle
       /\ activeTimerPhaseBeforePause = c.activeTimerPhaseBeforePause
       /\ currentTimerTaskName = c.currentTimerTaskName
       /\ targetEndTime = c.targetEndTime
       /\ taskForDescription = c.taskForDescription
       /\ isDescriptionModalOpen = c.isDescriptionModalOpen
       /\ isSaving = c.isSaving
       /\ armedIntervals = c.armedIntervals
       /\ localStorage = c.localStorage
       /\ pendingCreated = c.pendingCreated
       /\ dbSessions = << >>
       /\ saveOps = << >>
       /\ startOps = << >>
       /\ permission = "granted"
       /\ now = 0
       /\ visible = TRUE
       /\ submitRejected = FALSE
       /\ cancelledPending = {}
       /\ expiredBy = "none"
       /\ lastSubmitOutcome = "none"
       /\ lastEvent = "none"
       /\ user = "u1"
       /\ store = EmptyStore
       /\ chat = NoChat

BreakNext ==
  \/ StartBreakSession
  \/ CloseDescriptionModal
  \/ \E description \in Descriptions : SaveDescription(description)
  \/ \E i \in 1..MaxSaveOps, ok \in BOOLEAN : WriteSettles(i, ok)
  \/ \E i \in 1..MaxSaveOps, ok \in BOOLEAN : RefreshSettles(i, ok)
  \/ Tick
  \/ StopSession

BreakSpec == BreakInit /\ [][BreakNext]_vars

\* Long break for the positive multiples of four, short break otherwise.
ExpectedBreakSeconds(n) ==
  IF \E k \in 1..n : n = 4 * k THEN LONG_BREAK_DURATION_SECONDS
                                ELSE SHORT_BREAK_DURATION_SECONDS

\* C12: for every counter value n >= 0 the break duration selected on
\* entering Break is the long break if n > 0 and n mod 4 = 0 and the short
\* break otherwise, n = 0 included: as the value the code computes for n,
\* and as the remaining seconds of every step that enters Break, n being the
\* counter the handler read (for a submit, the counter of the render in
\* which the submit was made).
C12_BreakDurationSelection ==
  /\ [](\A n \in 0..(pomodorosInCycle + 4) :
          BreakDuration(n) = ExpectedBreakSeconds(n))
  /\ [][(/\ currentPhase # BREAK
          /\ currentPhase' = BREAK
          /\ ~\E i \in 1..Len(saveOps) : RefreshSettles(i, TRUE))
         => timeRemainingInSeconds' =
              ExpectedBreakSeconds(pomodorosInCycle)]_vars
  /\ [][\A i \in 1..Len(saveOps) :
          (RefreshSettles(i, TRUE) /\ currentPhase' = BREAK)
          => timeRemainingInSeconds' =
               ExpectedBreakSeconds(saveOps[i].pomodorosInCycle)]_vars

\* C12 witness: a long break entered at the second multiple of four.
C12_Witness ==
  /\ currentPhase = BREAK
  /\ pomodorosInCycle = 8
  /\ timeRemainingInSeconds = LONG_BREAK_DURATION_SECONDS
  /\ armedIntervals = 1

\* C13: after every completed state mutation the stored snapshot is present
\* if and only if the phase is Running or Paused, and when present it holds
\* the current phase, remaining seconds, counter, task name and phase before
\* pause; it is absent after stop() and in Idle, Break and Describing.
C13_SnapshotMirrorsLivePhases ==
  /\ (localStorage # << >>) <=> (currentPhase \in {RUNNING, PAUSED})
  /\ localStorage # << >> =>
       /\ Len(localStorage) = 1
       /\ localStorage[1].currentPhase = currentPhase
       /\ localStorage[1].timeRemainingInSeconds = timeRemainingInSeconds
       /\ localStorage[1].pomodorosInCycle = pomodorosInCycle
       /\ localStorage[1].currentTimerTaskName = currentTimerTaskName
       /\ localStorage[1].activeTimerPhaseBeforePause =
            activeTimerPhaseBeforePause

\* C13 witness: a break was paused after a tick and the snapshot holds the
\* paused state.
C13_Witness ==
  /\ currentPhase = PAUSED
  /\ activeTimerPhaseBeforePause = BREAK
  /\ timeRemainingInSeconds < SHORT_BREAK_DURATION_SECONDS
  /\ localStorage # << >>
  /\ localStorage[1].timeRemainingInSeconds = timeRemainingInSeconds
  /\ localStorage[1].currentPhase = PAUSED

\* ------------------------------------------------- loading any stored entry
\* What localStorage may hold under the owner's key when the page loads:
\* nothing, text that is not JSON, or a snapshot object with any phase and
\* any other fields (the entry is outside the program's control between two
\* page sessions).
StoredEntries ==
  {<< >>, <<Unparseable>>} \cup
  {<<e>> : e \in [currentPhase : PomodoroPhase,
                  timeRemainingInSeconds : {0, 3},
                  pomodorosInCycle : {0, 3},
                  currentTimerTaskName : {NoTask, "A"},
                  activeTimerPhaseBeforePause :
                     {RUNNING, BREAK, IDLE, "undefined"}]}

LoadInit ==
  \E stored \in StoredEntries :
    LET c == Mount(stored, 0)
    IN /\ currentPhase = c.currentPhase
       /\ timeRemainingInSeconds = c.timeRemainingInSeconds
       /\ pomodorosInCycle = c.pomodorosInCycle
       /\ activeTimerPhaseBeforePause = c.activeTimerPhaseBeforePause
       /\ currentTimerTaskName = c.currentTimerTaskName
       /\ targetEndTime = c.targetEndTime
       /\ taskForDescription = c.taskForDescription
       /\ isDescriptionModalOpen = c.isDescriptionModalOpen
       /\ isSaving = c.isSaving
       /\ armedIntervals = c.armedIntervals
       /\ localStorage = c.localStorage
       /\ pendingCreated = c.pendingCreated
       /\ dbSessions = << >>
       /\ saveOps = << >>
       /\ startOps = << >>
       /\ permission = "granted"
       /\ now = 0
       /\ visible = TRUE
       /\ submitRejected = FALSE
       /\ cancelledPending = {}
       /\ expiredBy = "none"
       /\ lastSubmitOutcome = "none"
       /\ lastEvent = LoadOutcome(stored)
       /\ user = "u1"
       /\ store = EmptyStore
       /\ chat = NoChat

LoadNext ==
  \/ \E name \in TaskNames : StartWorkSession(name)
  \/ PauseSession
  \/ ResumeSession
  \/ StopSession
  \/ StartBreakSession
  \/ CloseDescriptionModal
  \/ Tick
  \/ Hide
  \/ Show
  \/ Reload

LoadSpec == LoadInit /\ [][LoadNext]_vars

\* C14: on load, a stored snapshot whose phase is Idle, Break or Describing,
\* or whose content cannot be parsed, is ignored: the machine starts in the
\* initial state (Idle, full work duration, counter 0, no task name), as it
\* does when nothing is stored.
C14_UnusableSnapshotIgnored ==
  lastEvent \in {"loadIgnored", "loadUnparseable"} =>
    /\ currentPhase = IDLE
    /\ timeRemainingInSeconds = WORK_DURATION_SECONDS
    /\ pomodorosInCycle = 0
    /\ currentTimerTaskName = NoTask
    /\ targetEndTime = NoTime
    /\ taskForDescription = << >>
    /\ ~isDescriptionModalOpen
    /\ armedIntervals = 0
    /\ Cur = Mount(<< >>, 0)

\* C14 witness: the page has loaded over text that is not JSON and the
\* machine is in the initial state.
C14_Witness ==
  /\ lastEvent = "loadUnparseable"
  /\ currentPhase = IDLE
  /\ timeRemainingInSeconds = WORK_DURATION_SECONDS
  /\ localStorage = << >>

\* The submit saveOps[i] was made for the PendingDescription of the first
\* interval of the session and the machine is still Describing it.
FirstIntervalSubmit(i) ==
  /\ currentPhase = DESCRIBING
  /\ pomodorosInCycle = 1
  /\ taskForDescription = <<saveOps[i].taskForDescription>>

\* C15: starting from Idle with no completed intervals, start(name), expiry
\* and then a successful submit(description) yield exactly one persisted
\* PomodoroSession with taskName = name, taskDescription = description and
\* durationMinutes = round(WORK_DURATION_MINUTES); the phase becomes Break
\* with the short break length and the task name and PendingDescription
\* cleared.  The successful write of a submit made when no row exists for
\* the interval adds that one row; the successful refresh that ends the
\* submit adds none and makes the transition.
C15_FirstIntervalSubmit ==
  [][\A i \in 1..Len(saveOps) :
       LET id == saveOps[i].taskForDescription.id
       IN /\ (/\ WriteSettles(i, TRUE)
               /\ FirstIntervalSubmit(i)
               /\ RowsFor(dbSessions, id) = 0)
              => /\ Len(dbSessions') = Len(dbSessions) + 1
                 /\ SubSeq(dbSessions', 1, Len(dbSessions)) = dbSessions
                 /\ RowsFor(dbSessions', id) = 1
                 /\ LET row == dbSessions'[Len(dbSessions')]
                    IN /\ row.of = id
                       /\ row.taskName = currentTimerTaskName
                       /\ row.taskName \in TaskNames
                       /\ row.taskDescription = saveOps[i].description
                       /\ row.durationMinutes =
                            NearestInteger(WORK_DURATION_SECONDS, 60)
          /\ (/\ RefreshSettles(i, TRUE)
               /\ FirstIntervalSubmit(i)
               /\ RowsFor(dbSessions, id) = 1)
              => /\ dbSessions' = dbSessions
                 /\ currentPhase' = BREAK
                 /\ timeRemainingInSeconds' = SHORT_BREAK_DURATION_SECONDS
                 /\ currentTimerTaskName' = NoTask
                 /\ taskForDescription' = << >>
                 /\ ~isDescriptionModalOpen'
                 /\ ~isSaving']_vars

\* C15 witness: the first interval of the session was started, expired and
\* was submitted successfully; one row is stored and a short break runs.
C15_Witness ==
  /\ lastSubmitOutcome = "saved"
  /\ currentPhase = BREAK
  /\ pomodorosInCycle = 1
  /\ timeRemainingInSeconds = SHORT_BREAK_DURATION_SECONDS
  /\ Len(dbSessions) = 1
  /\ dbSessions[1].taskName = "A"
  /\ dbSessions[1].taskDescription = "d"
  /\ taskForDescription = << >>

\* C16: in every reachable state at most one tick timer is armed, and one
\* is armed if and only if the phase is Running or Break with remaining
\* seconds > 0; so one second of foreground time decrements the remaining
\* seconds by exactly 1 (after which a break that reached 0 is reset to the
\* work duration by its expiry).
C16_SingleTickTimer ==
  /\ [](armedIntervals \in {0, 1})
  /\ [](armedIntervals = 1 <=>
          (currentPhase \in {RUNNING, BREAK} /\ timeRemainingInSeconds > 0))
  /\ [][Tick =>
          \/ timeRemainingInSeconds' = timeRemainingInSeconds - 1
          \/ /\ timeRemainingInSeconds = 1
             /\ currentPhase = BREAK
             /\ currentPhase' = IDLE
             /\ timeRemainingInSeconds' = WORK_DURATION_SECONDS]_vars

\* C16 witness: a started work interval has been ticking for three seconds
\* and one timer is armed.
C16_Witness ==
  /\ currentPhase = RUNNING
  /\ armedIntervals = 1
  /\ Truthy(targetEndTime)
  /\ timeRemainingInSeconds = 7
  /\ now = 3000

\* C17: the notification capability never affects the timer: whatever the
\* state of the permission and the outcome of the permission request, a
\* start() from Idle reaches Running with the full work duration and the
\* given task name, and the expiries Running -> Describing and Break -> Idle
\* complete.
C17_NotificationNeverAffectsTimer ==
  [][/\ \A name \in TaskNames :
          (StartWorkSessionAwait(name) \/ StartWorkSession(name))
          => /\ currentPhase' = RUNNING
             /\ timeRemainingInSeconds' = WORK_DURATION_SECONDS
             /\ currentTimerTaskName' = name
     /\ (Tick /\ currentPhase = RUNNING /\ timeRemainingInSeconds = 1)
          => currentPhase' = DESCRIBING
     /\ (Tick /\ currentPhase = BREAK /\ timeRemainingInSeconds = 1)
          => (currentPhase' = IDLE
              /\ timeRemainingInSeconds' = WORK_DURATION_SECONDS)]_vars

\* C18: in every reachable state the phase is one of Idle, Running, Paused,
\* Describing, Break, including after restoring any parseable snapshot whose
\* phase is Running or Paused, whatever its other fields hold, followed by
\* any user action.
C18_PhaseAlwaysDefined ==
  currentPhase \in PomodoroPhase

\* Timer.handleStart is invoked with the text name.
HandleStartInvoked(name) ==
  \/ StartRejected(name)
  \/ StartWorkSessionAwait(name)
  \/ StartWorkSession(name)

\* C19: start() with a task name that is empty or only whitespace is
\* rejected before any state change: the phase stays Idle, the remaining
\* seconds, task name, targetEndTime and the stored snapshot are unchanged,
\* and no notification-permission request is made.
C19_BlankStartRejected ==
  [][\A name \in BlankNames :
       HandleStartInvoked(name)
       => /\ currentPhase' = IDLE
          /\ UNCHANGED <<compVars, startOps, permission, dbSessions,
                         saveOps>>]_vars

\* C19 witness: a start with a blank name has just been returned, in a
\* session with completed intervals, and the machine is Idle as before.
C19_Witness ==
  /\ lastEvent = "startRejected"
  /\ currentPhase = IDLE
  /\ pomodorosInCycle > 0
  /\ timeRemainingInSeconds = WORK_DURATION_SECONDS
  /\ currentTimerTaskName = NoTask
  /\ startOps = << >>
  /\ localStorage = << >>

\* C20: immediately after every transition into a live phase (start into
\* Running, resume into Running or Break, submit or cancel into Break,
\* start-break into Break), targetEndTime equals the transition time plus
\* 1000 times the remaining seconds the new phase starts with.
C20_TargetSetOnEnteringLivePhase ==
  [][(/\ currentPhase \notin {RUNNING, BREAK}
      /\ currentPhase' \in {RUNNING, BREAK}
      /\ ~Reload)
     => targetEndTime' = now' + timeRemainingInSeconds' * 1000]_vars

\* C23: the remaining seconds are never negative, also when a visibility
\* reconciliation and a firing of the interval that was already due are
\* applied in either order: the reconciled value is authoritative and the
\* tick continues from it without driving the value below 0.
C23_RemainingNeverNegative ==
  timeRemainingInSeconds >= 0

\* ------------------------------------- visibility changes without lost time
\* The machine Describing a work interval that was started in this page
\* session and has just expired by its last tick, at its deadline, with any
\* counter value.
DescribingInit ==
  \E n \in 1..MaxCycle :
    LET c == Render([InitialState EXCEPT
               !.currentPhase = DESCRIBING,
               !.timeRemainingInSeconds = 0,
               !.pomodorosInCycle = n,
               !.currentTimerTaskName = "A",
               !.targetEndTime = WORK_DURATION_SECONDS * 1000,
               !.taskForDescription =
                  <<[name |-> "A", duration |-> WORK_DURATION_SECONDS,
                     id |-> 1]>>,
               !.pendingCreated = 1,
               !.isDescriptionModalOpen = TRUE])
    IN /\ currentPhase = c.currentPhase
       /\ timeRemainingInSeconds = c.timeRemainingInSeconds
       /\ pomodorosInCycle = c.pomodorosInCycle
       /\ activeTimerPhaseBeforePause = c.activeTimerPhaseBeforePause
       /\ currentTimerTaskName = c.currentTimerTaskName
       /\ targetEndTime = c.targetEndTime
       /\ taskForDescription = c.taskForDescription
       /\ isDescriptionModalOpen = c.isDescriptionModalOpen
       /\ isSaving = c.isSaving
       /\ armedIntervals = c.armedIntervals
       /\ localStorage = c.localStorage
       /\ pendingCreated = c.pendingCreated
       /\ dbSessions = << >>
       /\ saveOps = << >>
       /\ startOps = << >>
       /\ permission = "granted"
       /\ now = WORK_DURATION_SECONDS * 1000
       /\ visible = TRUE
       /\ submitRejected = FALSE
       /\ cancelledPending = {}
       /\ expiredBy = "tick"
       /\ lastSubmitOutcome = "none"
       /\ lastEvent = "none"
       /\ user = "u1"
       /\ store = EmptyStore
       /\ chat = NoChat

\* Time passes only second by second under a running interval (no Elapse),
\* and nothing is paused: a live phase showing r seconds has been live for
\* its length minus r seconds.
TickedNext ==
  \/ CloseDescriptionModal
  \/ \E description \in Descriptions : SaveDescription(description)
  \/ \E i \in 1..MaxSaveOps, ok \in BOOLEAN : WriteSettles(i, ok)
  \/ \E i \in 1..MaxSaveOps, ok \in BOOLEAN : RefreshSettles(i, ok)
  \/ Tick
  \/ StopSession
  \/ StartBreakSession
  \/ \E name \in TaskNames : StartWorkSession(name)
  \/ Hide
  \/ Show

TickedSpec == DescribingInit /\ [][TickedNext]_vars

\* C21: a visibility reconciliation never shortens a live phase below its
\* real elapsed time: after d seconds of Running or Break the remaining
\* seconds become max(0, phase length - d), so a Break entered by submit or
\* cancel is not ended by a reconciliation before its duration has elapsed,
\* and reconciliation while Idle, Paused or Describing changes nothing.
\* Where every elapsed second of a live phase has been ticked, the remaining
\* seconds already are the phase length minus d, and the page becoming
\* visible must leave the phase and the remaining seconds as they are.
C21_ReconcileKeepsElapsedTime ==
  [][Show => /\ currentPhase' = currentPhase
             /\ timeRemainingInSeconds' = timeRemainingInSeconds]_vars

\* C22: a tick that fires after stop() or pause(), or after the phase
\* otherwise left Running/Break, applies no decrement: leaving a live phase
\* leaves no interval armed, so a tick fires only in Running or Break; the
\* remaining seconds are the work duration after stop() and the value at the
\* moment of pausing after pause(), and outside Running/Break they change
\* only by a user action, the completion of a submit or a visibility
\* change, whether the tick came before the handler or was still to come.
C22_NoTickAfterDisarm ==
  /\ [](currentPhase \notin {RUNNING, BREAK} => armedIntervals = 0)
  /\ [][/\ Tick => currentPhase \in {RUNNING, BREAK}
        /\ StopSession =>
             /\ timeRemainingInSeconds' = WORK_DURATION_SECONDS
             /\ armedIntervals' = 0
        /\ PauseSession =>
             /\ timeRemainingInSeconds' = timeRemainingInSeconds
             /\ armedIntervals' = 0
        /\ (/\ currentPhase \notin {RUNNING, BREAK}
            /\ ~UserAction
            /\ ~Show
            /\ ~\E i \in 1..Len(saveOps), ok \in BOOLEAN :
                  WriteSettles(i, ok) \/ RefreshSettles(i, ok))
             => timeRemainingInSeconds' = timeRemainingInSeconds]_vars

\* C22 witness: a countdown was stopped three seconds or more into the
\* page session; the timer shows the work duration and no interval is armed.
C22_Witness ==
  /\ lastEvent = "stopped"
  /\ currentPhase = IDLE
  /\ timeRemainingInSeconds = WORK_DURATION_SECONDS
  /\ armedIntervals = 0
  /\ now >= 3000
  /\ targetEndTime = NoTime

\* C24: the completion of an awaited persist write changes the timer state
\* only if the phase is still Describing with the same PendingDescription:
\* whatever happened in between (modal close, break ticks, break expiry,
\* stop(), start()), a late success leaves phase, remaining seconds, task
\* name, phase before pause, targetEndTime and the counter as they are, and
\* a late failure never leaves the interval both unpersisted and without a
\* PendingDescription.
C24_LateCompletionChangesNothing ==
  [][\A i \in 1..Len(saveOps) :
       LET id == saveOps[i].taskForDescription.id
           stillDescribing ==
             /\ currentPhase = DESCRIBING
             /\ taskForDescription = <<saveOps[i].taskForDescription>>
       IN /\ (RefreshSettles(i, TRUE) /\ ~stillDescribing)
               => TimerFrame(Cur') = TimerFrame(Cur)
          /\ (WriteSettles(i, FALSE) \/ RefreshSettles(i, FALSE))
               => \/ RowsFor(dbSessions', id) >= 1
                  \/ id \in {taskForDescription'[k].id :
                               k \in 1..Len(taskForDescription')}]_vars

\* C25: a failure of the history read is never treated as a write failure:
\* when the storage write of a submit has succeeded and the history refresh
\* that follows it fails, the machine still leaves Describing for Break and
\* the PendingDescription is consumed; the read failure writes no row.
C25_RefreshFailureStillEntersBreak ==
  [][\A i \in 1..Len(saveOps) :
       (/\ RefreshSettles(i, FALSE)
        /\ currentPhase = DESCRIBING
        /\ taskForDescription = <<saveOps[i].taskForDescription>>)
       => /\ currentPhase' = BREAK
          /\ taskForDescription' = << >>
          /\ dbSessions' = dbSessions]_vars

\* C26: stop() from Running, from Break or from Paused (paused from
\* either) yields Idle with the task name cleared, the remaining seconds at
\* the work duration, targetEndTime cleared, no interval armed and the
\* stored snapshot absent, and leaves the counter and the persisted sessions
\* unchanged.
C26_StopResetsToIdle ==
  [][StopSession =>
       /\ currentPhase \in {RUNNING, BREAK, PAUSED}
       /\ currentPhase' = IDLE
       /\ currentTimerTaskName' = NoTask
       /\ timeRemainingInSeconds' = WORK_DURATION_SECONDS
       /\ targetEndTime' = NoTime
       /\ armedIntervals' = 0
       /\ localStorage' = << >>
       /\ pomodorosInCycle' = pomodorosInCycle
       /\ dbSessions' = dbSessions]_vars

\* C26 witness: the break that followed a saved work interval was stopped;
\* the machine is Idle, the counter and the stored row are still there.
C26_Witness ==
  /\ lastEvent = "stopped"
  /\ lastSubmitOutcome = "saved"
  /\ currentPhase = IDLE
  /\ timeRemainingInSeconds = WORK_DURATION_SECONDS
  /\ currentTimerTaskName = NoTask
  /\ targetEndTime = NoTime
  /\ localStorage = << >>
  /\ pomodorosInCycle > 0
  /\ Len(dbSessions) = 1

\* C27: whenever the phase is Idle the remaining seconds equal the work
\* duration and the task name is absent: initially, after stop(), after a
\* break expiry and after any visibility change that occurs while Idle.
C27_IdleShowsWorkDuration ==
  currentPhase = IDLE =>
    /\ timeRemainingInSeconds = WORK_DURATION_SECONDS
    /\ currentTimerTaskName = NoTask

\* C28: in every reachable state the task name is defined only if the phase
\* is Running, Describing, or Paused with phase before pause Running; it is
\* absent in Idle, in Break and in Paused with phase before pause Break,
\* also when a start() whose permission request was pending completes late.
C28_TaskNameOnlyInWorkPhases ==
  /\ currentTimerTaskName # NoTask =>
       \/ currentPhase \in {RUNNING, DESCRIBING}
       \/ (currentPhase = PAUSED /\ activeTimerPhaseBeforePause = RUNNING)
  /\ (\/ currentPhase \in {IDLE, BREAK}
      \/ (currentPhase = PAUSED /\ activeTimerPhaseBeforePause = BREAK))
       => currentTimerTaskName = NoTask

\* C28 witness: a start whose permission request was still pending has
\* completed after a break had been begun and paused; the machine is
\* Running with the task name.
C28_Witness ==
  /\ lastEvent = "startedLate"
  /\ currentPhase = RUNNING
  /\ currentTimerTaskName \in TaskNames
  /\ activeTimerPhaseBeforePause = BREAK
  /\ timeRemainingInSeconds = WORK_DURATION_SECONDS

\* C29: cancelling or closing the description step while Describing moves
\* the machine to Break with the PendingDescription and the task name
\* cleared and the remaining seconds set to the break duration of the
\* counter, issues no storage write (no row is added and no submit is
\* started), and leaves the counter at its incremented value.
C29_CloseWhileDescribing ==
  [][(CloseDescriptionModal /\ currentPhase = DESCRIBING) =>
       /\ currentPhase' = BREAK
       /\ taskForDescription' = << >>
       /\ currentTimerTaskName' = NoTask
       /\ ~isDescriptionModalOpen'
       /\ timeRemainingInSeconds' = ExpectedBreakSeconds(pomodorosInCycle)
       /\ dbSessions' = dbSessions
       /\ saveOps' = saveOps
       /\ pomodorosInCycle' = pomodorosInCycle
       /\ pomodorosInCycle > 0]_vars

\* C29 witness: the description step of the fourth interval has just been
\* closed; the long break begins, nothing was stored for that interval and
\* the counter still counts it.
C29_Witness ==
  /\ lastEvent = "closedDescribing"
  /\ currentPhase = BREAK
  /\ pomodorosInCycle = 4
  /\ timeRemainingInSeconds = LONG_BREAK_DURATION_SECONDS
  /\ taskForDescription = << >>
  /\ currentTimerTaskName = NoTask
  /\ saveOps = << >>
  /\ pendingCreated \in cancelledPending

\* C30: within one session without reload, the Break entered from the
\* description step (by submit or by cancel) after the k-th completed work
\* interval has the long duration if and only if k mod 4 = 0: the duration
\* is that of the counter after the increment done at expiry.
C30_BreakAfterKthInterval ==
  [][(currentPhase = DESCRIBING /\ currentPhase' = BREAK) =>
       timeRemainingInSeconds' = ExpectedBreakSeconds(pomodorosInCycle)]_vars

\* C31: the counter of completed intervals never decreases over any sequence
\* of timer operations and reloads: it changes only by +1 at a work-interval
\* expiry (Running to Describing) and is unchanged by every other step, a
\* reload in any phase included.
C31_CounterNeverDecreases ==
  [][\/ pomodorosInCycle' = pomodorosInCycle
     \/ /\ pomodorosInCycle' = pomodorosInCycle + 1
        /\ currentPhase = RUNNING
        /\ currentPhase' = DESCRIBING]_vars

\* ------------------------------------------------ countdowns under fair ticking
\* The countdowns of ReconcileInit go on without pause or stop: the page is
\* shown and hidden, the interval fires, an expired work interval is
\* dismissed into its break and the next work interval or break is started.
FairNext ==
  \/ Show
  \/ ShowThenDueTick
  \/ Hide
  \/ Tick
  \/ CloseDescriptionModal
  \/ StartBreakSession
  \/ \E name \in TaskNames : StartWorkSession(name)

\* setInterval fires every second while the page is in the foreground, and
\* the page does not stay hidden for ever.
FairTicking ==
  /\ SF_vars(Tick)
  /\ WF_vars(Show \/ ShowThenDueTick)

FairSpec == ReconcileInit /\ [][FairNext]_vars /\ FairTicking

\* The clock of the model has reached its horizon: no further tick fits.
ClockExhausted == now + 1000 > MaxNow

\* C32: under fair ticking and with no pause and no stop, every Running
\* phase eventually reaches Describing and every Break phase eventually
\* reaches Idle (up to the horizon of the clock); outside the live phases no
\* interval is armed.
C32_LivePhasesExpire ==
  /\ (currentPhase = RUNNING) ~> (currentPhase = DESCRIBING \/ ClockExhausted)
  /\ (currentPhase = BREAK) ~> (currentPhase = IDLE \/ ClockExhausted)
  /\ [](currentPhase \notin {RUNNING, BREAK} => armedIntervals = 0)

\* The fields of the component that C33 compares across a reload.
RoundTripFields(c) ==
  <<c.currentPhase, c.timeRemainingInSeconds, c.pomodorosInCycle,
    c.currentTimerTaskName, c.activeTimerPhaseBeforePause>>

\* C33: a reload while the phase is Running or Paused remounts the machine
\* with the same phase, remaining seconds, counter, task name and phase
\* before pause as just before the reload; the snapshot is still present
\* once the mount has completed, and a second immediate reload restores the
\* same state again.
C33_ReloadRoundTrip ==
  [][(Reload /\ currentPhase \in {RUNNING, PAUSED}) =>
       /\ currentPhase' = currentPhase
       /\ timeRemainingInSeconds' = timeRemainingInSeconds
       /\ pomodorosInCycle' = pomodorosInCycle
       /\ currentTimerTaskName' = currentTimerTaskName
       /\ activeTimerPhaseBeforePause' = activeTimerPhaseBeforePause
       /\ localStorage' # << >>
       /\ localStorage' = localStorage
       /\ RoundTripFields(Mount(localStorage', pendingCreated')) =
            RoundTripFields(Cur)]_vars

\* C33 witness: the page was reloaded during a paused break that followed a
\* completed interval, and the paused break is back with its snapshot.
C33_Witness ==
  /\ lastEvent = "loadRestored"
  /\ currentPhase = PAUSED
  /\ activeTimerPhaseBeforePause = BREAK
  /\ currentTimerTaskName = NoTask
  /\ pomodorosInCycle > 0
  /\ now > 0
  /\ localStorage # << >>
  /\ localStorage[1].timeRemainingInSeconds = timeRemainingInSeconds

\* ------------------------------------------------------- change of user
\* Mutant: PomodoroApp is rendered without the key, so the instance and its
\* state survive the change of user; only the restore effect runs again.
MountForUser_SameInstance(c, entry, created) ==
  Render(RestoreEffect([c EXCEPT !.localStorage = entry]))

\* <PomodoroApp key={currentUser.id} .../>: a change of the key unmounts the
\* instance and mounts a new one, whose restore effect reads the entry of the
\* new user.
MountForUser(c, entry, created) == Mount(entry, created)

\* The rows written by the submits of ops whose index is in landed.
RECURSIVE RowsLanded(_, _, _)
RowsLanded(ops, landed, i) ==
  IF i > Len(ops) THEN << >>
  ELSE (IF i \in landed THEN <<SessionPayload(ops[i])>> ELSE << >>)
         \o RowsLanded(ops, landed, i + 1)

\* The time it takes to log out and log in as another user.
LoginMs == 6000

\* onAuthStateChange: the user logs out and newUser logs in.  The instance
\* of the old user is unmounted; what its effects wrote stays under its key.
\* The handlers it left in flight can no longer change any state; the writes
\* they had issued may still arrive.
UserChanges(newUser) ==
  /\ newUser \in Users \ {user}
  /\ user' = newUser
  /\ store' = [store EXCEPT ![StorageKey(user)] = localStorage]
  /\ Commit(MountForUser(Cur, store'[StorageKey(newUser)], pendingCreated))
  /\ \E landed \in SUBSET {i \in 1..Len(saveOps) : saveOps[i].pc = "write"} :
       dbSessions' = dbSessions \o RowsLanded(saveOps, landed, 1)
  /\ saveOps' = << >>
  /\ startOps' = << >>
  /\ now + LoginMs <= MaxNow
  /\ now' = now + LoginMs
  /\ UNCHANGED <<permission, visible, histVars, chat>>
  /\ lastEvent' = "userChanged"

\* The first user is logged in, over what earlier page sessions of the users
\* left in localStorage.
OwnerInit ==
  \E stored \in [StorageKeys -> StoredBeforeMount] :
  LET c == Mount(stored[StorageKey("u1")], 0)
  IN /\ currentPhase = c.currentPhase
     /\ timeRemainingInSeconds = c.timeRemainingInSeconds
     /\ pomodorosInCycle = c.pomodorosInCycle
     /\ activeTimerPhaseBeforePause = c.activeTimerPhaseBeforePause
     /\ currentTimerTaskName = c.currentTimerTaskName
     /\ targetEndTime = c.targetEndTime
     /\ taskForDescription = c.taskForDescription
     /\ isDescriptionModalOpen = c.isDescriptionModalOpen
     /\ isSaving = c.isSaving
     /\ armedIntervals = c.armedIntervals
     /\ localStorage = c.localStorage
     /\ pendingCreated = c.pendingCreated
     /\ dbSessions = << >>
     /\ saveOps = << >>
     /\ startOps = << >>
     /\ permission = "granted"
     /\ now = 0
     /\ visible = TRUE
     /\ submitRejected = FALSE
     /\ cancelledPending = {}
     /\ expiredBy = "none"
     /\ lastSubmitOutcome = "none"
     /\ lastEvent = "none"
     /\ user = "u1"
     /\ store = stored
     /\ chat = NoChat

OwnerNext ==
  \/ \E name \in TaskNames : StartWorkSession(name)
  \/ PauseSession
  \/ ResumeSession
  \/ StopSession
  \/ StartBreakSession
  \/ CloseDescriptionModal
  \/ \E description \in Descriptions : SaveDescription(description)
  \/ \E i \in 1..MaxSaveOps, ok \in BOOLEAN : WriteSettles(i, ok)
  \/ \E i \in 1..MaxSaveOps, ok \in BOOLEAN : RefreshSettles(i, ok)
  \/ Tick
  \/ Reload
  \/ \E newUser \in Users : UserChanges(newUser)

OwnerSpec == OwnerInit /\ [][OwnerNext]_vars

\* C34: every save, load and clear performed by the machine of a user touches
\* only the entry under the key of that user: over every step, the entry
\* stored for any user other than the one whose machine is mounted before or
\* after the step is unchanged, stop and logout included.
C34_SnapshotIsolation ==
  [][\A u \in Users :
       (u # user /\ u # user') => EntryOf(u)' = EntryOf(u)]_vars

\* C34 witness: the second user paused a work interval and logged out; the
\* first user logged in again, worked and stopped, which cleared its own
\* entry; the paused snapshot of the second user is still stored.
C34_Witness ==
  /\ lastEvent = "stopped"
  /\ user = "u1"
  /\ EntryOf("u1") = << >>
  /\ EntryOf("u2") # << >>
  /\ EntryOf("u2")[1].currentPhase = PAUSED
  /\ EntryOf("u2")[1].pomodorosInCycle = 0

\* C35: when the user changes, the machine of the new user starts in the
\* initial state, or in the state of the new user's own honoured snapshot;
\* neither the phase, the remaining seconds, the task name, the counter, the
\* PendingDescription nor the in-flight flag of the old user's machine
\* carries over.
C35_NothingCarriesOver ==
  [][user' # user =>
       LET own == EntryOf(user')
           honoured == /\ own # << >>
                       /\ JsonParses(own[1])
                       /\ own[1].currentPhase \in {RUNNING, PAUSED}
       IN /\ taskForDescription' = << >>
          /\ ~isSaving'
          /\ ~isDescriptionModalOpen'
          /\ targetEndTime' = NoTime
          /\ IF honoured
             THEN /\ currentPhase' = own[1].currentPhase
                  /\ timeRemainingInSeconds' = own[1].timeRemainingInSeconds
                  /\ pomodorosInCycle' = own[1].pomodorosInCycle
                  /\ currentTimerTaskName' = own[1].currentTimerTaskName
                  /\ activeTimerPhaseBeforePause' =
                       own[1].activeTimerPhaseBeforePause
             ELSE /\ currentPhase' = IDLE
                  /\ timeRemainingInSeconds' = WORK_DURATION_SECONDS
                  /\ pomodorosInCycle' = 0
                  /\ currentTimerTaskName' = NoTask]_vars

\* C35 witness: the first user logged out while Describing its fourth
\* interval with a submit in flight, whose row was still written; the second
\* user, who has no snapshot, starts Idle with counter 0, nothing pending
\* and no submit in flight.
C35_Witness ==
  /\ lastEvent = "userChanged"
  /\ user = "u2"
  /\ pendingCreated = 1
  /\ Len(dbSessions) = 1
  /\ lastSubmitOutcome = "none"
  /\ currentPhase = IDLE
  /\ pomodorosInCycle = 0
  /\ taskForDescription = << >>
  /\ ~isSaving
  /\ EntryOf("u1") = << >>

\* ------------------------------------------------------ overlapping starts
\* The user has clicked Start twice while the permission prompt was open:
\* two invocations of handleStartWorkSession, made in Idle, wait for their
\* permission requests, which the browser settles one by one.
OverlapInit ==
  LET c == Mount(<< >>, 0)
      op == [taskName |-> "A", currentPhase |-> IDLE]
  IN /\ currentPhase = c.currentPhase
     /\ timeRemainingInSeconds = c.timeRemainingInSeconds
     /\ pomodorosInCycle = c.pomodorosInCycle
     /\ activeTimerPhaseBeforePause = c.activeTimerPhaseBeforePause
     /\ currentTimerTaskName = c.currentTimerTaskName
     /\ targetEndTime = c.targetEndTime
     /\ taskForDescription = c.taskForDescription
     /\ isDescriptionModalOpen = c.isDescriptionModalOpen
     /\ isSaving = c.isSaving
     /\ armedIntervals = c.armedIntervals
     /\ localStorage = c.localStorage
     /\ pendingCreated = c.pendingCreated
     /\ dbSessions = << >>
     /\ saveOps = << >>
     /\ startOps = <<op, op>>
     /\ permission = "default"
     /\ now = 0
     /\ visible = TRUE
     /\ submitRejected = FALSE
     /\ cancelledPending = {}
     /\ expiredBy = "none"
     /\ lastSubmitOutcome = "none"
     /\ lastEvent = "none"
     /\ user = "u1"
     /\ store = EmptyStore
     /\ chat = NoChat

OverlapNext ==
  \/ \E i \in 1..(MaxStartOps + 1), answer \in {"default", "granted", "denied"} :
       PermissionSettles(i, answer)
  \/ \E name \in BlankNames : StartRejected(name)
  \/ \E name \in TaskNames \cup BlankNames : StartWorkSessionAwait(name)
  \/ \E name \in TaskNames \cup BlankNames : StartWorkSession(name)
  \/ PauseSession
  \/ ResumeSession
  \/ StopSession
  \/ StartBreakSession
  \/ CloseDescriptionModal
  \/ \E description \in Descriptions : SaveDescription(description)
  \/ \E i \in 1..MaxSaveOps, ok \in BOOLEAN : WriteSettles(i, ok)
  \/ \E i \in 1..MaxSaveOps, ok \in BOOLEAN : RefreshSettles(i, ok)
  \/ Tick

OverlapSpec == OverlapInit /\ [][OverlapNext]_vars

\* The table of transitions has a row for the handler in the phase.
SubmitOrCancel ==
  CloseDescriptionModal \/ \E d \in Descriptions : SaveDescription(d)

\* C36: the presentation layer enables in each phase only actions that are
\* rows of the transition table: start only in Idle and only with a
\* non-blank task name, pause only in Running or Break, resume only in
\* Paused, stop only in Running, Break or Paused, submit and cancel only in
\* Describing with the description modal open, and start-break only in Break
\* or Paused from Break; so no enabled user action invokes a handler in a
\* phase where the table has no row for it.
C36_OnlyTableActionsEnabled ==
  [][/\ \A name \in TaskNames \cup BlankNames :
          (StartWorkSession(name) \/ StartWorkSessionAwait(name)) =>
            currentPhase = IDLE /\ Trim(name) # ""
     /\ PauseSession => currentPhase \in {RUNNING, BREAK}
     /\ ResumeSession => currentPhase = PAUSED
     /\ StopSession => currentPhase \in {RUNNING, BREAK, PAUSED}
     /\ SubmitOrCancel =>
          currentPhase = DESCRIBING /\ isDescriptionModalOpen
     /\ StartBreakSession =>
          \/ currentPhase = BREAK
          \/ currentPhase = PAUSED /\ activeTimerPhaseBeforePause = BREAK]_vars

\* ------------------------------------------------------------ the AI chat
MaxChatSends == 6

\* What chatInstance.sendMessage can throw, by what the catch block tests:
\* error instanceof Error, and which of the three texts error.message
\* includes.  A value that is not an Error has no message to test.
ThrownValues ==
  {e \in [isError : BOOLEAN, apiKeyNotValid : BOOLEAN,
          contextLength : BOOLEAN, has400 : BOOLEAN] :
     ~e.isError => ~(e.apiKeyNotValid \/ e.contextLength \/ e.has400)}

\* The catch block of startOrContinueChat.
CatchSendError(c, e) ==
  IF e.isError /\ e.apiKeyNotValid
  THEN [c EXCEPT !.outcome = "invalidKey"]
  ELSE IF e.isError /\ (e.contextLength \/ e.has400)
       THEN [c EXCEPT !.chatInstance = 0, !.outcome = "sessionError"]
       ELSE [c EXCEPT !.outcome = "failed"]

timerVars == <<compVars, dbSessions, saveOps, startOps, permission, now,
               visible, histVars, lastEvent, ownerVars>>

\* startOrContinueChat without an API key: if (!genAI) throw.
ChatSendNotConfigured ==
  /\ ~chat.configured
  /\ chat.sent < MaxChatSends
  /\ chat' = [chat EXCEPT !.sent = @ + 1, !.outcome = "notConfigured"]
  /\ UNCHANGED timerVars

\* startOrContinueChat up to its await: the handle is created if there is
\* none, and the message is sent on it.  Chat.handleSend lets one send be in
\* flight at a time (isLoading).
ChatSend ==
  /\ chat.configured
  /\ chat.sending = 0
  /\ chat.sent < MaxChatSends
  /\ LET handle == IF chat.chatInstance = 0 THEN chat.created + 1
                                            ELSE chat.chatInstance
     IN chat' = [chat EXCEPT
                   !.chatInstance = handle,
                   !.created = IF chat.chatInstance = 0 THEN @ + 1 ELSE @,
                   !.sending = handle,
                   !.sent = @ + 1,
                   !.outcome = "none"]
  /\ UNCHANGED timerVars

\* The awaited sendMessage resolves.
ChatSendSucceeds ==
  /\ chat.sending # 0
  /\ chat' = [chat EXCEPT !.sending = 0, !.outcome = "reply"]
  /\ UNCHANGED timerVars

\* The awaited sendMessage throws e.
ChatSendFails(e) ==
  /\ chat.sending # 0
  /\ chat' = CatchSendError([chat EXCEPT !.sending = 0, !.thrown = <<e>>], e)
  /\ UNCHANGED timerVars

\* The page is loaded with or without an API key; the timer is idle.
ChatInit ==
  \E configured \in BOOLEAN :
  LET c == Mount(<< >>, 0)
  IN /\ currentPhase = c.currentPhase
     /\ timeRemainingInSeconds = c.timeRemainingInSeconds
     /\ pomodorosInCycle = c.pomodorosInCycle
     /\ activeTimerPhaseBeforePause = c.activeTimerPhaseBeforePause
     /\ currentTimerTaskName = c.currentTimerTaskName
     /\ targetEndTime = c.targetEndTime
     /\ taskForDescription = c.taskForDescription
     /\ isDescriptionModalOpen = c.isDescriptionModalOpen
     /\ isSaving = c.isSaving
     /\ armedIntervals = c.armedIntervals
     /\ localStorage = c.localStorage
     /\ pendingCreated = c.pendingCreated
     /\ dbSessions = << >>
     /\ saveOps = << >>
     /\ startOps = << >>
     /\ permission = "default"
     /\ now = 0
     /\ visible = TRUE
     /\ submitRejected = FALSE
     /\ cancelledPending = {}
     /\ expiredBy = "none"
     /\ lastSubmitOutcome = "none"
     /\ lastEvent = "none"
     /\ user = "u1"
     /\ store = EmptyStore
     /\ chat = [NoChat EXCEPT !.configured = configured]

ChatNext ==
  \/ ChatSendNotConfigured
  \/ ChatSend
  \/ ChatSendSucceeds
  \/ \E e \in ThrownValues : ChatSendFails(e)

ChatSpec == ChatInit /\ [][ChatNext]_vars

\* The failure is a context overflow: an Error whose message says so (and
\* is not the invalid-key message).
ContextOverflow(e) == e.isError /\ e.contextLength /\ ~e.apiKeyNotValid

\* C37: the chat handle is created on the first message and reused for
\* later messages; a send that fails with a context-overflow error discards
\* the handle, so that the next message creates a fresh one, while any other
\* send failure, an invalid key included, keeps the handle; every failure is
\* surfaced as an error to the caller.
C37_ChatHandleLifecycle ==
  [][/\ ChatSend =>
          /\ chat.chatInstance = 0 =>
               chat'.chatInstance = chat.created + 1
          /\ chat.chatInstance # 0 =>
               chat'.chatInstance = chat.chatInstance
          /\ chat'.sending = chat'.chatInstance
     /\ ChatSendNotConfigured => chat'.outcome = "notConfigured"
     /\ \A e \in ThrownValues :
          ChatSendFails(e) =>
            /\ chat'.outcome \in {"invalidKey", "sessionError", "failed"}
            /\ chat'.chatInstance =
                 IF ContextOverflow(e) THEN 0 ELSE chat.chatInstance]_vars

\* C38: no live phase is ever stuck: in every reachable state where the
\* phase is Running or Break, either the remaining seconds are positive and
\* an interval is armed, or they are 0 and the expiry transition of the core
\* timer effect is enabled; Running implies a non-empty task name, so that
\* Running with 0 seconds proceeds to Describing.
C38_LivePhaseNeverStuck ==
  /\ currentPhase \in {RUNNING, BREAK} =>
       \/ timeRemainingInSeconds > 0 /\ armedIntervals > 0
       \/ /\ timeRemainingInSeconds = 0
          /\ currentPhase = RUNNING => currentTimerTaskName # NoTask
  /\ currentPhase = RUNNING => currentTimerTaskName # NoTask

\* C39: in every reachable state a PendingDescription exists if and only if
\* the phase is Describing, and the description modal is open if and only
\* if the phase is Describing; the PendingDescription carries the task name
\* that was active when the interval expired.
C39_PendingIffDescribing ==
  /\ []((taskForDescription # << >>) <=> (currentPhase = DESCRIBING))
  /\ [](isDescriptionModalOpen <=> (currentPhase = DESCRIBING))
  /\ [][pendingCreated' # pendingCreated =>
          /\ taskForDescription' # << >>
          /\ taskForDescription'[1].name = currentTimerTaskName
          /\ currentTimerTaskName # NoTask]_vars

\* C40: a start whose permission request resolves only later applies its
\* transition against the phase current at resolution time: if the phase is
\* no longer Idle when the request resolves, the late completion does not
\* overwrite that phase, its remaining seconds or its targetEndTime, so that
\* two overlapping starts result in a single Running interval.
C40_LateStartDoesNotOverwrite ==
  [][(/\ currentPhase # IDLE
      /\ \E i \in 1..(MaxStartOps + 1),
            answer \in {"default", "granted", "denied"} :
           PermissionSettles(i, answer))
       => /\ currentPhase' = currentPhase
          /\ timeRemainingInSeconds' = timeRemainingInSeconds
          /\ targetEndTime' = targetEndTime]_vars

====
